---- MODULE Spec2Model ----
(***************************************************************************)
(* B3 IBOVESPA batch pipeline: command line entry point (main), the        *)
(* orchestrator (B3DataPipeline), the scraper's download wait, the CSV     *)
(* ingestion of DataProcessor, the retention cleanup and the environment   *)
(* loader.                                                                 *)
(***************************************************************************)
EXTENDS Integers, Sequences, FiniteSets, TLC

VARIABLES
    args,         \* parsed command line: skip_download, skip_upload, cleanup, create_env, date
    environ,      \* os.environ restricted to the required variables
    pc,           \* control point of main / run_pipeline
    exit_code,    \* process exit status, -1 until the process ends
    fs,           \* file system: path -> file record
    browser,      \* the Chrome download in flight
    scraper,      \* locals of _wait_for_download_completion
    target,       \* target_date of main / run_pipeline
    csv_path,     \* run_pipeline local: path returned by _download_data
    df,           \* run_pipeline local: table returned by process_csv_to_dataframe
    s3,           \* objects in the bucket: key -> lines
    run_result,   \* value returned by run_pipeline, "none" before it returns
    hist,         \* observations about the run (stage log, exceptions, cleanup)
    call          \* a direct call of a helper, as the unit tests make: function, arguments, result

vars == <<args, environ, pc, exit_code, fs, browser, scraper, target, csv_path, df, s3,
          run_result, hist, call>>

-----------------------------------------------------------------------------
(* Bounds of the model *)

\* widest probed line generated by the download
MaxCols == 8
\* day number of the run (modification times are whole days)
Today == 10
\* most data rows of a file handed to the ingestion directly
MaxRows == 3
\* longest column name, over NameChars, handed to clean_column_name
MaxName == 2
\* longest series, over NumericTexts, handed to clean_numeric_field
MaxSeries == 2

(* Program constants *)
max_wait == 60
wait_interval == 2
days_to_keep == 7

-----------------------------------------------------------------------------
(* env_loader.py *)

RequiredVars == {"AWS_ACCESS_KEY_ID", "AWS_SECRET_ACCESS_KEY", "S3_BUCKET_NAME"}

\* values of a variable: unset, "", whitespace only, a usable value
Missing == "missing"
EnvValues == {Missing, "", " ", "key"}

\* a .env file: absent, or a value (or no line) for every required variable;
\* the values are the stripped, unquoted ones (a quoted blank stays a blank)
Absent == "no line"
EnvFiles ==
    {[exists |-> FALSE, vals |-> [k \in RequiredVars |-> Absent]]} \cup
    {[exists |-> TRUE, vals |-> v] : v \in [RequiredVars -> {Absent, "", " ", "key"}]}

\* os.getenv(key) is falsy for an unset variable and for ""
Falsy(v) == v = Missing \/ v = ""

load_env_file(env, file) ==
    IF ~file.exists THEN env
    ELSE [k \in RequiredVars |->
            IF file.vals[k] # Absent /\ Falsy(env[k]) THEN file.vals[k] ELSE env[k]]

\* value.strip() of the modelled values
strip_blank(v) == IF v = " " THEN "" ELSE v

\* a validation that only looks for unset variables
validate_required_env_vars_unset_only(env, required) ==
    [missing |-> {k \in required : env[k] = Missing}, empty |-> {},
     valid |-> ({k \in required : env[k] = Missing} = {})]

validate_required_env_vars(env, required) ==
    LET missing == {k \in required : env[k] = Missing}
        empty   == {k \in required : env[k] # Missing /\ strip_blank(env[k]) = ""}
    IN  [missing |-> missing, empty |-> empty,
         valid |-> (missing = {} /\ empty = {})]

initialize_environment(env) == validate_required_env_vars(env, RequiredVars).valid

-----------------------------------------------------------------------------
(* Text: a string is a sequence of one-character strings *)

\* Body applied to the value of e (e is evaluated once)
With(e, Body(_)) == CHOOSE r \in {Body(x) : x \in {e}} : TRUE

\* a sequence with all its elements evaluated
Force(s) == SubSeq(s, 1, Len(s))

Digits == {"0", "1", "2", "3", "4", "5", "6", "7", "8", "9"}

DigitVal(c) ==
    CASE c = "0" -> 0 [] c = "1" -> 1 [] c = "2" -> 2 [] c = "3" -> 3
      [] c = "4" -> 4 [] c = "5" -> 5 [] c = "6" -> 6 [] c = "7" -> 7
      [] c = "8" -> 8 [] c = "9" -> 9

Lower == <<"a","b","c","d","e","f","g","h","i","j","k","l","m",
           "n","o","p","q","r","s","t","u","v","w","x","y","z">>
Upper == <<"A","B","C","D","E","F","G","H","I","J","K","L","M",
           "N","O","P","Q","R","S","T","U","V","W","X","Y","Z">>

\* str.upper() of one character
UpperChar(c) ==
    IF \E i \in 1..26 : Lower[i] = c
    THEN Upper[CHOOSE i \in 1..26 : Lower[i] = c] ELSE c

str_upper(s) == With(s, LAMBDA v : Force([i \in 1..Len(v) |-> UpperChar(v[i])]))

\* str.strip(): the text between its first and its last non-blank character
StripV(v) ==
    IF \A i \in 1..Len(v) : v[i] = " " THEN <<>>
    ELSE SubSeq(v, CHOOSE i \in 1..Len(v) : v[i] # " " /\ \A j \in 1..(i - 1) : v[j] = " ",
                   CHOOSE i \in 1..Len(v) : v[i] # " " /\ \A j \in (i + 1)..Len(v) : v[j] = " ")

str_strip(s) == With(s, StripV)

StartsWith(s, pat) == Len(s) >= Len(pat) /\ SubSeq(s, 1, Len(pat)) = pat

\* str.replace(old, new), left to right, non-overlapping (old is not empty)
RECURSIVE str_replace(_, _, _)
ReplaceV(v, old, new) ==
    IF v = <<>> THEN <<>>
    ELSE IF StartsWith(v, old)
         THEN new \o str_replace(SubSeq(v, Len(old) + 1, Len(v)), old, new)
         ELSE <<Head(v)>> \o str_replace(Tail(v), old, new)

str_replace(s, old, new) == With(s, LAMBDA v : ReplaceV(v, old, new))

\* the integer written by a sequence of digits
RECURSIVE DigitsVal(_)
DigitsValV(v) ==
    IF v = <<>> THEN 0 ELSE 10 * DigitsVal(SubSeq(v, 1, Len(v) - 1)) + DigitVal(v[Len(v)])

DigitsVal(s) == With(s, DigitsValV)

AllDigits(s) == With(s, LAMBDA v : \A i \in 1..Len(v) : v[i] \in Digits)

\* the pieces of s between the separators: str.split(sep)
RECURSIVE Split(_, _)
SplitV(v, sep) ==
    IF \E i \in 1..Len(v) : v[i] = sep
    THEN With(CHOOSE i \in 1..Len(v) : v[i] = sep /\ \A j \in 1..(i - 1) : v[j] # sep,
              LAMBDA i : <<SubSeq(v, 1, i - 1)>> \o Split(SubSeq(v, i + 1, Len(v)), sep))
    ELSE <<v>>

Split(s, sep) == With(s, LAMBDA v : SplitV(v, sep))

DecDigits == <<"0", "1", "2", "3", "4", "5", "6", "7", "8", "9">>

\* the decimal digits of a natural number
RECURSIVE NatChars(_)
NatCharsV(n) ==
    IF n < 10 THEN <<DecDigits[n + 1]>> ELSE NatChars(n \div 10) \o <<DecDigits[(n % 10) + 1]>>

NatChars(n) == With(n, NatCharsV)

RECURSIVE Pow10(_)
Pow10V(k) == IF k = 0 THEN 1 ELSE 10 * Pow10(k - 1)

Pow10(k) == With(k, Pow10V)

\* s padded with zeros on the left up to the width
ZeroPad(s, width) ==
    With(s, LAMBDA v : [i \in 1..(IF Len(v) >= width THEN 0 ELSE width - Len(v)) |-> "0"] \o v)

-----------------------------------------------------------------------------
(* config_module.py *)

\* strftime("%d"), ("%m"), ("%y"): two digits, zero padded
Pad2(n) == IF n < 10 THEN "0" \o ToString(n) ELSE ToString(n)

\* a format with the year in four digits
strftime_dmY_dashes(date) == Pad2(date.d) \o "-" \o Pad2(date.m) \o "-" \o ToString(date.y)

strftime_dmy(date) == Pad2(date.d) \o "-" \o Pad2(date.m) \o "-" \o Pad2(date.y % 100)

get_csv_filename(date) == "IBOVDia_" \o strftime_dmy(date) \o ".csv"

\* csv_name.replace('.csv', '.parquet'): the name holds '.csv' once, as its suffix
get_parquet_filename(date) == "IBOVDia_" \o strftime_dmy(date) \o ".parquet"

get_s3_key(date) == "raw/parquet file/" \o get_parquet_filename(date)

DOWNLOAD_DIR == "downloads"
DATA_DIR == "data"
LOGS_DIR == "logs"

REQUIRED_COLUMNS ==
    <<"codigo", "acao", "tipo", "qtdeteorica", "part", "data_pregao", "timestamp_extracao">>

Range(s) == {s[i] : i \in 1..Len(s)}

\* re.match(CODIGO_PATTERN, text) with CODIGO_PATTERN = r'^[A-Z0-9]+$'
CODIGO_PATTERN(text) ==
    /\ text # <<>>
    /\ \A i \in 1..Len(text) : text[i] \in Range(Upper) \cup Digits

-----------------------------------------------------------------------------
(* pandas values *)

NaN == [t |-> "nan", v |-> <<>>]
Str(chars) == [t |-> "str", v |-> chars]
Num(mant, scale) == [t |-> "num", v |-> <<mant, scale>>]
Date(y, m, d) == [t |-> "date", v |-> <<y, m, d>>]

\* mant / 10^scale without trailing zeros in the fraction
RECURSIVE Normalise(_, _)
NormaliseV(p) ==
    IF p[2] > 0 /\ p[1] % 10 = 0 THEN Normalise(p[1] \div 10, p[2] - 1)
    ELSE Num(p[1], p[2])

Normalise(mant, scale) == With(<<mant, scale>>, NormaliseV)

\* the text before and after the first '.'
SplitAtDotV(v) ==
    IF \E i \in 1..Len(v) : v[i] = "."
    THEN With(CHOOSE i \in 1..Len(v) : v[i] = "." /\ \A j \in 1..(i - 1) : v[j] # ".",
              LAMBDA i : <<SubSeq(v, 1, i - 1), SubSeq(v, i + 1, Len(v))>>)
    ELSE <<v, <<>>>>

SplitAtDot(s) == With(s, SplitAtDotV)

\* the float parser of pandas on text of digits, '.', sign and blanks:
\* blanks around the number are skipped, one sign and one '.' are allowed
ParseSigned(neg, body) ==
    With(SplitAtDot(body), LAMBDA p :
        IF AllDigits(p[1]) /\ AllDigits(p[2]) /\ Len(p[1]) + Len(p[2]) >= 1
        THEN Normalise((IF neg THEN -1 ELSE 1) * DigitsVal(p[1] \o p[2]), Len(p[2]))
        ELSE NaN)

ParseNumber(s) ==
    With(str_strip(s), LAMBDA t :
        IF t # <<>> /\ Head(t) \in {"-", "+"} THEN ParseSigned(Head(t) = "-", Tail(t))
        ELSE ParseSigned(FALSE, t))

\* pd.to_numeric(value, errors='coerce')
to_numeric(s) == ParseNumber(s)

\* the values read_csv turns into NaN
NaValues ==
    { <<>>, <<"N","/","A">>, <<"N","A">>, <<"n","a","n">>, <<"N","a","N">>,
      <<"n","/","a">>, <<"n","u","l","l">>, <<"N","U","L","L">>,
      <<"N","o","n","e">>, <<"#","N","/","A">> }

read_cell(field) == IF field \in NaValues THEN NaN ELSE Str(field)

HasDot(s) == \E i \in 1..Len(s) : s[i] = "."

\* dtype read_csv infers for a column of cells: numeric when every value
\* present is a number, int64 only without NaN and without a fraction
infer_dtype(col) ==
    With(col, LAMBDA v :
        IF \E i \in 1..Len(v) : v[i].t = "str" /\ ParseNumber(v[i].v).t = "nan"
        THEN "object"
        ELSE IF \A i \in 1..Len(v) : v[i].t = "str" /\ ~HasDot(v[i].v)
             THEN "int64" ELSE "float64")

\* str() of an int64 and of a float64 (values below 1e16)
IntRepr(num) ==
    With(num.v[1], LAMBDA m : IF m < 0 THEN <<"-">> \o NatChars(-m) ELSE NatChars(m))

FloatReprV(a, sc) ==
    NatChars(a \div Pow10(sc)) \o <<".">> \o
    (IF sc = 0 THEN <<"0">> ELSE ZeroPad(NatChars(a % Pow10(sc)), sc))

FloatRepr(num) ==
    With(num.v, LAMBDA p :
        IF p[1] < 0 THEN <<"-">> \o FloatReprV(-p[1], p[2]) ELSE FloatReprV(p[1], p[2]))

\* series.astype(str) of one cell of a column of the given dtype
astype_str(cell, dtype) ==
    IF cell.t = "nan" THEN <<"n","a","n">>
    ELSE IF dtype = "int64" THEN IntRepr(ParseNumber(cell.v))
    ELSE IF dtype = "float64" THEN FloatRepr(ParseNumber(cell.v))
    ELSE cell.v

-----------------------------------------------------------------------------
(* data_processor_module.py *)

\* a conversion that deletes '.' whatever the flag
clean_numeric_value_grouped(cell, dtype, is_currency) ==
    LET c0 == str_strip(astype_str(cell, dtype))
        c1 == str_replace(c0, <<"%">>, <<>>)
        c2 == str_replace(c1, <<"-">>, <<>>)
        c3 == str_replace(c2, <<"n","a","n">>, <<>>)
        c4 == str_replace(c3, <<"N","/","A">>, <<>>)
        c5 == str_replace(c4, <<".">>, <<>>)
        c6 == str_replace(c5, <<",">>, <<".">>)
    IN  to_numeric(c6)

\* one value of clean_numeric_field; dtype is the dtype of the series read
clean_numeric_value(cell, dtype, is_currency) ==
    LET c0 == str_strip(astype_str(cell, dtype))
        c1 == str_replace(c0, <<"%">>, <<>>)
        c2 == str_replace(c1, <<"-">>, <<>>)
        c3 == str_replace(c2, <<"n","a","n">>, <<>>)
        c4 == str_replace(c3, <<"N","/","A">>, <<>>)
        c5 == IF is_currency THEN str_replace(c4, <<".">>, <<>>) ELSE c4
        c6 == str_replace(c5, <<",">>, <<".">>)
    IN  to_numeric(c6)

\* clean_numeric_field of a series of the given dtype (a series built from
\* Python strings has dtype object); an empty series is returned as it is
clean_numeric_series(col, dtype, is_currency) ==
    With(col, LAMBDA v :
        Force([i \in 1..Len(v) |-> clean_numeric_value(v[i], dtype, is_currency)]))

clean_numeric_field(col, is_currency) ==
    With(col, LAMBDA v : With(infer_dtype(v), LAMBDA dtype :
        Force([i \in 1..Len(v) |-> clean_numeric_value(v[i], dtype, is_currency)])))

\* fields of a line joined by the separator: the raw text of the line
RECURSIVE RawLine(_)
RawLineV(line) ==
    IF line = <<>> THEN <<>>
    ELSE IF Len(line) = 1 THEN line[1]
    ELSE line[1] \o <<";">> \o RawLine(Tail(line))

RawLine(line) == With(line, RawLineV)

\* re.search(r'(\d{2})/(\d{2})/(\d{2})', text): position of the first match, 0 if none
DateMatchAt(text, i) ==
    /\ i + 7 <= Len(text)
    /\ text[i] \in Digits /\ text[i + 1] \in Digits /\ text[i + 2] = "/"
    /\ text[i + 3] \in Digits /\ text[i + 4] \in Digits /\ text[i + 5] = "/"
    /\ text[i + 6] \in Digits /\ text[i + 7] \in Digits

DateSearch(text) ==
    With(text, LAMBDA t :
        IF \E i \in 1..Len(t) : DateMatchAt(t, i)
        THEN CHOOSE i \in 1..Len(t) : DateMatchAt(t, i) /\ \A j \in 1..(i - 1) : ~DateMatchAt(t, j)
        ELSE 0)

\* strftime("%d/%m/%Y")
strftime_dmY(date) ==
    ZeroPad(NatChars(date.d), 2) \o <<"/">> \o ZeroPad(NatChars(date.m), 2) \o <<"/">> \o
    ZeroPad(NatChars(date.y), 4)

\* an extraction that reads the two-digit year in the century 19xx
extract_date_from_header_19xx(first_line, today) ==
    With(first_line, LAMBDA t : With(DateSearch(t), LAMBDA i :
        IF i > 0
        THEN SubSeq(t, i, i + 5) \o <<"1", "9">> \o SubSeq(t, i + 6, i + 7)
        ELSE strftime_dmY(today)))

extract_date_from_header(first_line, today) ==
    With(first_line, LAMBDA t : With(DateSearch(t), LAMBDA i :
        IF i > 0
        THEN SubSeq(t, i, i + 5) \o <<"2", "0">> \o SubSeq(t, i + 6, i + 7)
        ELSE strftime_dmY(today)))

IsLeap(y) == (y % 4 = 0 /\ y % 100 # 0) \/ y % 400 = 0

DaysIn(y, m) ==
    IF m = 2 THEN (IF IsLeap(y) THEN 29 ELSE 28)
    ELSE IF m \in {4, 6, 9, 11} THEN 30 ELSE 31

ValidDate(y, m, d) == y >= 1 /\ m \in 1..12 /\ d >= 1 /\ d <= DaysIn(y, m)

\* the date written by day, month and year digits, NaN when it is not one
DateOf(yy, mm, dd, ylen, mlens, dlens) ==
    IF /\ Len(yy) \in ylen /\ AllDigits(yy)
       /\ Len(mm) \in mlens /\ AllDigits(mm)
       /\ Len(dd) \in dlens /\ AllDigits(dd)
    THEN With(<<DigitsVal(yy), DigitsVal(mm), DigitsVal(dd)>>, LAMBDA n :
            IF ValidDate(n[1], n[2], n[3]) THEN Date(n[1], n[2], n[3]) ELSE NaN)
    ELSE NaN

\* a conversion that takes any three numbers for a date
to_datetime_dmY_unchecked(cell) ==
    With(cell, LAMBDA x :
        IF x.t # "str" THEN NaN
        ELSE With(Split(x.v, "/"), LAMBDA parts :
                IF Len(parts) = 3 /\ \A k \in 1..3 : parts[k] # <<>> /\ AllDigits(parts[k])
                THEN Date(DigitsVal(parts[3]), DigitsVal(parts[2]), DigitsVal(parts[1]))
                ELSE NaN))

\* pd.to_datetime(value, format='%d/%m/%Y', errors='coerce') of one cell
to_datetime_dmY(cell) ==
    With(cell, LAMBDA x :
        IF x.t # "str" THEN NaN
        ELSE With(Split(x.v, "/"), LAMBDA parts :
                IF Len(parts) = 3
                THEN DateOf(parts[3], parts[2], parts[1], {4}, 1..2, 1..2)
                ELSE NaN))

\* pd.to_datetime(value, errors='coerce') of one cell holding ISO text
\* YYYY-MM-DD, optionally followed by T and a time of day
to_datetime_iso(cell) ==
    With(cell, LAMBDA x :
        IF x.t # "str" \/ Len(x.v) < 10 THEN NaN
        ELSE IF Len(x.v) > 10 /\ x.v[11] \notin {"T", " "} THEN NaN
        ELSE With(Split(SubSeq(x.v, 1, 10), "-"), LAMBDA parts :
                IF Len(parts) = 3
                THEN DateOf(parts[1], parts[2], parts[3], {4}, {2}, {2})
                ELSE NaN))

\* strftime("%Y-%m-%dT%H:%M:%S") of the current instant
strftime_iso(today, clock) ==
    ZeroPad(NatChars(today.y), 4) \o <<"-">> \o ZeroPad(NatChars(today.m), 2) \o <<"-">> \o
    ZeroPad(NatChars(today.d), 2) \o <<"T">> \o clock

Names7 == <<"codigo", "acao", "tipo", "qtdeteorica", "part", "data_pregao", "timestamp_extracao">>
Names5 == <<"codigo", "acao", "tipo", "qtdeteorica", "part">>

IndexOf(names, c) == CHOOSE j \in 1..Len(names) : names[j] = c

\* the seven names chosen one field too early
column_names_from6(num_cols) ==
    IF num_cols >= 6 THEN Names7
    ELSE IF num_cols >= 5 THEN Names5
    ELSE <<>>

\* column names chosen from the number of fields of the probed line
\* (<<>> when the file is rejected)
column_names(num_cols) ==
    IF num_cols >= 7 THEN Names7
    ELSE IF num_cols >= 5 THEN Names5
    ELSE <<>>

\* the lines read_csv parses: the first line is skipped (skiprows=1), blank
\* lines are skipped
DataLines(lines) == SelectSeq(Tail(lines), LAMBDA l : l # <<>>)

\* read_csv(..., header=None, names=names, usecols=range(len(names))): a row is
\* the cells of the used columns in order, short lines are padded with NaN,
\* fields beyond the used columns are ignored
read_row(line, width) ==
    Force([j \in 1..width |-> IF j <= Len(line) THEN read_cell(line[j]) ELSE NaN])

read_csv(lines, names) ==
    With(DataLines(lines), LAMBDA data :
        Force([i \in 1..Len(data) |-> read_row(data[i], Len(names))]))

\* the cells of column c of rows laid out as names
Column(rows, names, c) ==
    With(IndexOf(names, c), LAMBDA j : Force([i \in 1..Len(rows) |-> rows[i][j]]))

\* cell of column c in row i of a table
Cell(frame, i, c) == frame.rows[i][IndexOf(frame.columns, c)]

\* Python's None
None == [t |-> "none", v |-> <<>>]

\* unidecode.unidecode of one character: ASCII stays, a letter loses its
\* diacritic, other characters are spelled out in ASCII
unidecode_char(ch) ==
    CASE ch = "ç" -> <<"c">>
      [] ch = "Ç" -> <<"C">>
      [] ch = "ó" -> <<"o">>
      [] ch = "ã" -> <<"a">>
      [] ch = "é" -> <<"e">>
      [] ch = "ß" -> <<"s", "s">>
      [] ch = "«" -> <<"<", "<">>
      [] OTHER -> <<ch>>

RECURSIVE unidecode(_)
unidecodeV(v) ==
    IF v = <<>> THEN <<>> ELSE unidecode_char(Head(v)) \o unidecode(Tail(v))

unidecode(text) == With(text, unidecodeV)

\* re.sub(r'[^a-zA-Z0-9_]', '', text)
re_sub_non_word(text) ==
    With(text, LAMBDA v :
        SelectSeq(v, LAMBDA ch : ch \in Range(Lower) \cup Range(Upper) \cup Digits \cup {"_"}))

LowerChar(ch) ==
    IF \E i \in 1..26 : Upper[i] = ch
    THEN Lower[CHOOSE i \in 1..26 : Upper[i] = ch] ELSE ch

str_lower(s) == With(s, LAMBDA v : Force([i \in 1..Len(v) |-> LowerChar(v[i])]))

unnamed_column == <<"u","n","n","a","m","e","d","_","c","o","l","u","m","n">>

\* a clean-up that returns whatever is left, the empty string included
clean_column_name_no_sentinel(col_name) ==
    IF col_name.t \in {"none", "nan"} \/ col_name.v = <<>> THEN unnamed_column
    ELSE str_lower(re_sub_non_word(unidecode(col_name.v)))

\* clean_column_name of None, of NaN or of a string
clean_column_name(col_name) ==
    IF col_name.t \in {"none", "nan"} \/ col_name.v = <<>> THEN unnamed_column
    ELSE With(re_sub_non_word(unidecode(col_name.v)), LAMBDA name :
            IF name = <<>> THEN unnamed_column ELSE str_lower(name))

\* a validation that does not look at the rows
validate_dataframe_columns_only(frame) ==
    Range(REQUIRED_COLUMNS) \ Range(frame.columns) = {}

validate_dataframe(frame) ==
    /\ frame.rows # <<>>
    /\ Range(REQUIRED_COLUMNS) \ Range(frame.columns) = {}

Raise(error) == [ok |-> FALSE, error |-> error, df |-> [columns |-> <<>>, rows |-> <<>>]]
Return(frame) == [ok |-> TRUE, error |-> "none", df |-> frame]

\* row i after the codigo clean-up, the numeric conversion, the added columns
\* and the date conversion; c holds the cleaned columns and the added values
clean_row(row, names, i, c) ==
    << IF row[1].t = "str" THEN Str(str_upper(str_strip(row[1].v))) ELSE NaN,
       row[2], row[3], c.qt[i], c.pt[i],
       to_datetime_dmY(IF Len(names) >= 6 THEN row[6] ELSE c.hdr),
       to_datetime_iso(IF Len(names) >= 7 THEN row[7] ELSE c.stamp) >>

\* a dropna that looks at codigo alone
kept_row_code_only(row, cleaned) ==
    /\ \E j \in 1..Len(row) : row[j].t # "nan"
    /\ cleaned[1].t # "nan"

\* dropna(how='all') on the rows read and dropna(subset=[codigo, qtdeteorica, part])
\* on the cleaned rows
kept_row(row, cleaned) ==
    /\ \E j \in 1..Len(row) : row[j].t # "nan"
    /\ cleaned[1].t # "nan" /\ cleaned[4].t # "nan" /\ cleaned[5].t # "nan"

\* a processing that returns the table without validating it
process_rows_unvalidated(read, names, c) ==
    With(Force([i \in 1..Len(read) |-> clean_row(read[i], names, i, c)]), LAMBDA full :
      With(SelectSeq(Force([i \in 1..Len(read) |-> i]), LAMBDA i : kept_row(read[i], full[i])),
        LAMBDA idx :
          With([columns |-> Names7, rows |-> Force([k \in 1..Len(idx) |-> full[idx[k]]])],
            LAMBDA frame :
              IF infer_dtype(Column(read, names, "codigo")) # "object"
              THEN Raise("AttributeError")
              ELSE Return(frame))))

process_rows(read, names, c) ==
    With(Force([i \in 1..Len(read) |-> clean_row(read[i], names, i, c)]), LAMBDA full :
      With(SelectSeq(Force([i \in 1..Len(read) |-> i]), LAMBDA i : kept_row(read[i], full[i])),
        LAMBDA idx :
          With([columns |-> Names7, rows |-> Force([k \in 1..Len(idx) |-> full[idx[k]]])],
            LAMBDA frame :
              IF infer_dtype(Column(read, names, "codigo")) # "object"
              THEN Raise("AttributeError")
              ELSE IF ~validate_dataframe(frame) THEN Raise("ValueError")
              ELSE Return(frame))))

\* a processing that takes the day of the run for the session date
process_lines_run_date(ls, today, clock) ==
    IF ls = <<>> \/ DataLines(ls) = <<>> THEN Raise("EmptyDataError")
    ELSE With(column_names(Len(DataLines(ls)[1])), LAMBDA names :
            IF names = <<>> THEN Raise("ValueError")
            ELSE With(read_csv(ls, names), LAMBDA read :
                   process_rows(read, names,
                     [qt    |-> clean_numeric_field(Column(read, names, "qtdeteorica"), TRUE),
                      pt    |-> clean_numeric_field(Column(read, names, "part"), FALSE),
                      hdr   |-> Str(strftime_dmY(today)),
                      stamp |-> Str(strftime_iso(today, clock))])))

process_lines(ls, today, clock) ==
    IF ls = <<>> \/ DataLines(ls) = <<>> THEN Raise("EmptyDataError")
    ELSE With(column_names(Len(DataLines(ls)[1])), LAMBDA names :
            IF names = <<>> THEN Raise("ValueError")
            ELSE With(read_csv(ls, names), LAMBDA read :
                   process_rows(read, names,
                     [qt    |-> clean_numeric_field(Column(read, names, "qtdeteorica"), TRUE),
                      pt    |-> clean_numeric_field(Column(read, names, "part"), FALSE),
                      hdr   |-> Str(extract_date_from_header(RawLine(ls[1]), today)),
                      stamp |-> Str(strftime_iso(today, clock))])))

process_csv_to_dataframe(lines, today, clock) ==
    With(lines, LAMBDA ls : process_lines(ls, today, clock))

\* strftime('%Y-%m-%d') of a datetime cell, missing for NaT
strftime_Ymd(cell) ==
    With(cell, LAMBDA x :
        IF x.t # "date" THEN NaN
        ELSE Str(ZeroPad(NatChars(x.v[1]), 4) \o <<"-">> \o ZeroPad(NatChars(x.v[2]), 2)
                 \o <<"-">> \o ZeroPad(NatChars(x.v[3]), 2)))

\* the rows save_to_parquet stores: the two date columns as text
parquet_rows(frame) ==
    With(frame, LAMBDA f :
        Force([i \in 1..Len(f.rows) |->
            << f.rows[i][1], f.rows[i][2], f.rows[i][3], f.rows[i][4], f.rows[i][5],
               strftime_Ymd(f.rows[i][6]), strftime_Ymd(f.rows[i][7]) >>]))

-----------------------------------------------------------------------------
(* Inputs: dates, command lines, CSV exports, directory contents *)

\* datetime.now(): the calendar day and time of day of the run
TodayDate == [y |-> 2025, m |-> 8, d |-> 4]
Clock == <<"1","0",":","0","0",":","0","0">>
\* the session the site serves when the requested day is not a business day
OtherDate == [y |-> 2025, m |-> 8, d |-> 1]

\* time.time() of the run, in seconds
Now == Today * 86400

\* values of --date: absent, a date, a day that does not exist, another format
DateArgs ==
    { <<>>,
      <<"2","0","2","4","-","0","1","-","1","5">>,
      <<"2","0","2","4","-","0","2","-","3","0">>,
      <<"1","5","/","0","1","/","2","0","2","4">> }

\* datetime.strptime(text, '%Y-%m-%d'): <<>> stands for ValueError
strptime_Ymd(text) ==
    LET parts == Split(text, "-")
    IN  IF /\ Len(parts) = 3
           /\ Len(parts[1]) = 4 /\ AllDigits(parts[1])
           /\ Len(parts[2]) \in 1..2 /\ AllDigits(parts[2])
           /\ Len(parts[3]) \in 1..2 /\ AllDigits(parts[3])
           /\ ValidDate(DigitsVal(parts[1]), DigitsVal(parts[2]), DigitsVal(parts[3]))
        THEN <<[y |-> DigitsVal(parts[1]), m |-> DigitsVal(parts[2]), d |-> DigitsVal(parts[3])]>>
        ELSE <<>>

\* the date run_pipeline works on: --date when given, else today
target_date(a) == IF a.date = <<>> THEN TodayDate ELSE strptime_Ymd(a.date)[1]

\* target_date before main has set it
NoDate == [y |-> 0, m |-> 0, d |-> 0]

Banner == << <<"D","i","a"," ","0","4","/","0","8","/","2","5">> >>

FullHeader ==
    << <<"C","o","d">>, <<"A","c","a","o">>, <<"T","i","p","o">>, <<"Q","t","d","e">>,
       <<"P","a","r","t">>, <<"D","a","t","a">>, <<"H","o","r","a">> >>

FullLine ==
    << <<"p","e","t","r","4">>, <<"P","E","T","R","O">>, <<"P","N">>,
       <<"1",".","2","3","4",",","5","6">>, <<"5",",","5">>,
       <<"0","1","/","0","8","/","2","0","2","5">>,
       <<"2","0","2","5","-","0","8","-","0","1","T","0","9",":","0","0",":","0","0">> >>

\* a line of n fields; fields past the known ones hold "x"
FieldsOf(full, n) == [i \in 1..n |-> IF i <= Len(full) THEN full[i] ELSE <<"x">>]

\* a row whose quantity does not parse
BadLine ==
    << <<"V","A","L","E","3">>, <<"V","A","L","E">>, <<"O","N">>, <<"?">>, <<"3",",","2">> >>

\* exports the site may serve: banner, header-like line and one row, all of n
\* fields; a banner alone; a file whose only row is dropped
CsvSamples ==
    { <<Banner, FieldsOf(FullHeader, n), FieldsOf(FullLine, n)>> : n \in 1..MaxCols }
    \cup { <<Banner>>, <<Banner, FieldsOf(FullHeader, 5), BadLine>> }

\* data rows of 5 fields: two valid ones, a quantity and a participation that
\* do not parse, a footer without code, the footer "Total" of the test CSV, a
\* blank code and a code with a character outside [A-Z0-9]
GoodRow1 == FieldsOf(FullLine, 5)

GoodRow2 ==
    << <<"I","T","U","B","4">>, <<"I","T","A","U">>, <<"P","N">>,
       <<"9","8","7",",","6","5">>, <<"3",",","2">> >>

BadPartRow ==
    << <<"B","B","D","C","4">>, <<"B","R","A","D">>, <<"P","N">>, <<"1","0","0">>, <<"x">> >>

NoCodeRow ==
    << <<>>, <<>>, <<>>, <<"4",".","5","6","7",".","9","0","1",",","1","1">>,
       <<"1","3",",","5">> >>

TotalRow ==
    << <<"T","o","t","a","l">>, <<>>, <<>>,
       <<"4",".","5","6","7",".","9","0","1",",","1","1">>, <<"1","3",",","5">> >>

BlankCodeRow ==
    << <<" ">>, <<"S","E","M">>, <<"O","N">>, <<"1","0",",","0">>, <<"1",",","0">> >>

DashCodeRow ==
    << <<"b","3","-","s","a">>, <<"B","3">>, <<"O","N">>, <<"2","0",",","0">>, <<"2",",","0">> >>

\* a row whose participation is above 100
BigPartRow ==
    << <<"M","G","L","U","3">>, <<"M","A","G","A","L","U">>, <<"O","N">>, <<"1","0",",","0">>,
       <<"2","5","0",",","0">> >>

RowKinds5 ==
    <<GoodRow1, GoodRow2, BadLine, BadPartRow, BlankCodeRow, DashCodeRow, NoCodeRow, TotalRow,
      BigPartRow>>

\* data rows of 7 fields: a valid one, a day that does not exist, a timestamp
\* that is no timestamp, a quantity that does not parse
BadDateRow ==
    << <<"A","B","E","V","3">>, <<"A","M","B","E","V">>, <<"O","N">>, <<"3","0",",","0">>,
       <<"3",",","0">>, <<"3","1","/","0","2","/","2","0","2","5">>,
       <<"2","0","2","5","-","0","8","-","0","1","T","0","9",":","0","0",":","0","0">> >>

BadStampRow ==
    << <<"W","E","G","E","3">>, <<"W","E","G">>, <<"O","N">>, <<"4","0",",","0">>,
       <<"4",",","0">>, <<"0","1","/","0","8","/","2","0","2","5">>, <<"s","o","o","n">> >>

\* the row whose quantity does not parse, with a date and a timestamp
BadQtRow7 == BadLine \o <<FullLine[6], FullLine[7]>>

RowKinds7 == <<FieldsOf(FullLine, 7), BadDateRow, BadStampRow, BadQtRow7>>

\* the rows of kinds whose index is in S, in the order of kinds
RowsOf(kinds, S) ==
    With(SelectSeq(Force([i \in 1..Len(kinds) |-> i]), LAMBDA i : i \in S), LAMBDA idx :
        Force([k \in 1..Len(idx) |-> kinds[idx[k]]]))

Selections(kinds) ==
    {S \in SUBSET (1..Len(kinds)) : Cardinality(S) >= 1 /\ Cardinality(S) <= MaxRows}

\* the CSV of test_process_csv_to_dataframe, accents left out: banner,
\* header-like line, three rows and the footer
TestCsv ==
    <<
      << <<"D","a","t","a"," ","d","e"," ","R","e","f","e","r","e","n","c","i","a",":"," ","1","5","/","0","1","/","2","0","2","4">> >>,
      << <<"C","o","d","i","g","o">>, <<"A","c","a","o">>, <<"T","i","p","o">>,
         <<"Q","t","d","e","."," ","T","e","o","r","i","c","a">>,
         <<"P","a","r","t","."," ","(","%",")">> >>,
      << <<"P","E","T","R","4">>, <<"P","E","T","R","O","B","R","A","S"," ","P","N">>,
         <<"P","N">>, <<"1",".","2","3","4",".","5","6","7",",","8","9">>, <<"5",",","5">> >>,
      << <<"V","A","L","E","3">>, <<"V","A","L","E"," ","O","N">>, <<"O","N">>,
         <<"9","8","7",".","6","5","4",",","3","2">>, <<"3",",","2">> >>,
      << <<"I","T","U","B","4">>,
         <<"I","T","A","U"," ","U","N","I","B","A","N","C","O"," ","P","N">>, <<"P","N">>,
         <<"2",".","3","4","5",".","6","7","8",",","9","0">>, <<"4",",","8">> >>,
      TotalRow >>

\* banners: dd/mm/yy dates, a text without a date
Banner99 == << <<"C","a","r","t","e","i","r","a"," ","3","1","/","1","2","/","9","9">> >>
Banner24 == << <<"2","9","/","0","2","/","2","4"," ","I","B","O","V">> >>
BannerNoDate == << <<"I","B","O","V"," ","D","i","a">> >>
Banners == {Banner, Banner99, Banner24, BannerNoDate}

\* files handed to process_csv_to_dataframe: a banner, a header-like line and
\* up to MaxRows rows; a row right after the banner; the valid rows under
\* each banner; the test CSV with its footer and with a footer without code
IngestFiles ==
    {<<Banner, FieldsOf(FullHeader, 5)>> \o RowsOf(RowKinds5, S) : S \in Selections(RowKinds5)}
    \cup {<<Banner, FullHeader>> \o RowsOf(RowKinds7, S) : S \in Selections(RowKinds7)}
    \cup {<<Banner, RowKinds5[i]>> : i \in 1..Len(RowKinds5)}
    \cup {<<b, FieldsOf(FullHeader, 5), GoodRow1, GoodRow2>> : b \in Banners}
    \cup {TestCsv, SubSeq(TestCsv, 1, 5) \o <<NoCodeRow>>}

-----------------------------------------------------------------------------
(* File system *)

Path(dir, name) == <<dir, name>>
File(mtime, lines) == [kind |-> "file", mtime |-> mtime, lines |-> lines]
Dir(mtime) == [kind |-> "dir", mtime |-> mtime, lines |-> <<>>]

Exists(f, p) == p \in DOMAIN f
WriteFile(f, p, rec) == [q \in DOMAIN f \cup {p} |-> IF q = p THEN rec ELSE f[q]]
Remove(f, S) == [q \in DOMAIN f \ S |-> f[q]]
\* a copy: the file stays under its old name too
Rename_copy(f, a, b) == WriteFile(f, b, f[a])
\* Path.rename on POSIX: replaces the target
Rename(f, a, b) == WriteFile(Remove(f, {a}), b, f[a])
\* stat().st_size > 0
NonEmpty(f, p) == Len(f[p].lines) > 0

\* names matching the glob IBOVDia_*.csv among the names of the model
IbovCsvNames ==
    { get_csv_filename(d) :
        d \in {TodayDate, OtherDate} \cup {strptime_Ymd(a)[1] : a \in {b \in DateArgs : strptime_Ymd(b) # <<>>}} }

glob_ibov(f) == {p[2] : p \in {q \in DOMAIN f : q[1] = DOWNLOAD_DIR /\ q[2] \in IbovCsvNames}}

\* cutoff_time of cleanup_old_files
cutoff_time(now, days) == now - (days * 24 * 3600)

EmptyFs == [q \in {} |-> File(0, <<>>)]

\* an old export of the target day left by an earlier run
OldCsv == File(cutoff_time(Now, days_to_keep) - 1, <<Banner, FieldsOf(FullHeader, 5), FieldsOf(FullLine, 5)>>)

\* other things lying in the three directories
Junk ==
    (Path(DOWNLOAD_DIR, "notes.txt") :> File(cutoff_time(Now, days_to_keep) - 1, <<>>)) @@
    (Path(DOWNLOAD_DIR, "edge.txt") :> File(cutoff_time(Now, days_to_keep), <<>>)) @@
    (Path(DOWNLOAD_DIR, "fresh.txt") :> File(Now, <<>>)) @@
    (Path(DOWNLOAD_DIR, "archive") :> Dir(cutoff_time(Now, days_to_keep) - 1)) @@
    (Path(DATA_DIR, "IBOVDia_01-01-25.parquet") :> File(cutoff_time(Now, days_to_keep) - 1, <<>>)) @@
    (Path(LOGS_DIR, "B3DataPipeline_20250101.log") :> File(cutoff_time(Now, days_to_keep) - 1, <<>>))

InitialFs(a, pre_csv) ==
    Junk @@
    (IF pre_csv /\ (a.date = <<>> \/ strptime_Ymd(a.date) # <<>>)
     THEN (Path(DOWNLOAD_DIR, get_csv_filename(target_date(a))) :> OldCsv) ELSE EmptyFs)

-----------------------------------------------------------------------------
(* State *)

Stages == {"download", "ingest", "write", "upload"}

NoReport == [name |-> "", size |-> 0, grew |-> FALSE, writing |-> FALSE]

InitHist ==
    [stages         |-> <<>>,                         \* stages attempted, in order
     status         |-> [st \in Stages |-> "idle"],   \* idle, running, ok, skipped, failed
     raised         |-> "none",                       \* exception raised inside run_pipeline
     escaped        |-> "none",                       \* exception that left run_pipeline
     fatal          |-> "none",                       \* exception main's except clauses caught
     built          |-> FALSE,                        \* B3DataPipeline was constructed
     written        |-> EmptyFs,                      \* files this run produced
     cleanup        |-> "none",                       \* none, done, aborted
     unlink_failed  |-> {},                           \* files unlink() failed on
     before_cleanup |-> EmptyFs,                      \* directory contents when cleanup began
     wait           |-> "none",                       \* none, found, timeout
     dirty          |-> FALSE,                        \* a file grew since the previous poll
     report         |-> NoReport]                     \* what the download wait returned

\* no helper is being called
NoCall == [fn |-> "none", arg |-> <<>>, flag |-> FALSE, result |-> <<>>, done |-> FALSE]

Init ==
    /\ \/ /\ environ \in [RequiredVars -> EnvValues]
          /\ args \in [skip_download : {FALSE}, skip_upload : BOOLEAN, cleanup : {FALSE},
                       create_env : BOOLEAN, date : {<<>>}]
       \/ /\ environ = [k \in RequiredVars |-> "key"]
          /\ args \in [skip_download : BOOLEAN, skip_upload : BOOLEAN, cleanup : BOOLEAN,
                       create_env : BOOLEAN, date : DateArgs]
    /\ \E pre_csv \in BOOLEAN : fs = InitialFs(args, pre_csv)
    /\ pc = "import"
    /\ exit_code = -1
    /\ browser = [st |-> "closed", name |-> "", pending |-> <<>>]
    /\ scraper = [polls |-> 0, files_before |-> {}]
    /\ target = NoDate
    /\ csv_path = <<>>
    /\ df = [columns |-> <<>>, rows |-> <<>>]
    /\ s3 = EmptyFs
    /\ run_result = "none"
    /\ hist = InitHist
    /\ call = NoCall

-----------------------------------------------------------------------------
(* main_pipeline.py: main, before the pipeline runs *)

\* import of env_loader: the .env file is read into the environment
LoadOnImport ==
    /\ pc = "import"
    /\ \E file \in EnvFiles : environ' = load_env_file(environ, file)
    /\ pc' = "main"
    /\ UNCHANGED <<args, target, exit_code, fs, browser, scraper, csv_path, df, s3, run_result, hist>>
    /\ UNCHANGED call

\* create_env_template(): writes the template unless it exists
create_env_template(f) ==
    IF Exists(f, Path(".", ".env.template")) THEN f
    ELSE WriteFile(f, Path(".", ".env.template"), File(Now, <<>>))

\* main up to the try block: --create-env returns, a bad --date exits 1
ParseArgs ==
    /\ pc = "main"
    /\ IF args.create_env
       THEN /\ fs' = create_env_template(fs)
            /\ pc' = "exited"
            /\ exit_code' = 0
       ELSE IF args.date # <<>> /\ strptime_Ymd(args.date) = <<>>
       THEN /\ pc' = "exited"
            /\ exit_code' = 1
            /\ fs' = fs
       ELSE /\ pc' = "init_env"
            /\ exit_code' = exit_code
            /\ fs' = fs
    /\ target' = IF args.create_env \/ (args.date # <<>> /\ strptime_Ymd(args.date) = <<>>)
                 THEN target ELSE target_date(args)
    /\ UNCHANGED <<args, environ, browser, scraper, csv_path, df, s3, run_result, hist>>
    /\ UNCHANGED call

\* initialize_environment(): the .env file is read again and the required
\* variables are validated
InitializeEnvironment ==
    /\ pc = "init_env"
    /\ \E file \in EnvFiles :
          /\ environ' = load_env_file(environ, file)
          /\ IF initialize_environment(environ')
             THEN pc' = "construct" /\ exit_code' = exit_code
             ELSE pc' = "exited" /\ exit_code' = 1
    /\ UNCHANGED <<args, target, fs, browser, scraper, csv_path, df, s3, run_result, hist>>
    /\ UNCHANGED call

\* S3Uploader._validate_aws_config: fields that are None or ""
missing_fields(env) == {k \in RequiredVars : Falsy(env[k])}

\* B3DataPipeline(...): loggers, scraper, processor, uploader unless skipped,
\* directories; an exception here is caught by main's except Exception
Construct ==
    /\ pc = "construct"
    /\ \E io_ok \in BOOLEAN :
          IF io_ok /\ (args.skip_upload \/ missing_fields(environ) = {})
          THEN /\ pc' = "download"
               /\ exit_code' = exit_code
               /\ fs' = WriteFile(fs, Path(LOGS_DIR, "B3DataPipeline_20250804.log"), File(Now, <<>>))
               /\ hist' = [hist EXCEPT !.built = TRUE]
          ELSE /\ pc' = "exited"
               /\ exit_code' = 1
               /\ fs' = fs
               /\ hist' = [hist EXCEPT !.fatal = "Exception"]
    /\ UNCHANGED <<args, target, environ, browser, scraper, csv_path, df, s3, run_result>>
    /\ UNCHANGED call

-----------------------------------------------------------------------------
(* main_pipeline.py: run_pipeline *)

\* exceptions that derive from Exception
ExceptionClasses ==
    {"Exception", "ValueError", "FileNotFoundError", "OSError", "AttributeError",
     "EmptyDataError", "WebDriverException", "TimeoutException"}

expected_filename == get_csv_filename(target)
expected_path == Path(DOWNLOAD_DIR, expected_filename)
parquet_path == Path(DATA_DIR, get_parquet_filename(target))

\* an except clause that names only the errors of the processing stage
run_pipeline_except_narrow(exc, f) ==
    [caught |-> exc \in {"ValueError", "FileNotFoundError", "EmptyDataError"},
     ret |-> "False", fs |-> f]

\* an except clause that deletes what the run has produced
run_pipeline_except_rollback(exc, f) ==
    [caught |-> exc \in ExceptionClasses, ret |-> "False",
     fs |-> Remove(f, {expected_path, parquet_path} \cap DOMAIN f)]

\* the except Exception clause of run_pipeline: what it catches, what it returns
\* and what it leaves on disk
run_pipeline_except(exc, f) ==
    [caught |-> exc \in ExceptionClasses, ret |-> "False", fs |-> f]

\* a run_pipeline that logs the error of a stage and goes on to the next one
StageRaises_continue(h0, stage, exc, f) ==
    /\ hist' = [h0 EXCEPT !.status[stage] = "failed", !.raised = exc]
    /\ fs' = f
    /\ run_result' = run_result
    /\ exit_code' = exit_code
    /\ pc' = CASE stage = "download" -> "ingest"
              [] stage = "ingest" -> "write"
              [] stage = "write" -> "upload"
              [] OTHER -> "returned"

\* a stage raises exc at a point where the files are f and the observations h0
StageRaises(h0, stage, exc, f) ==
    LET h == run_pipeline_except(exc, f)
    IN  /\ hist' = [h0 EXCEPT !.status[stage] = "failed", !.raised = exc,
                              !.escaped = IF h.caught THEN @ ELSE exc,
                              !.fatal = IF h.caught THEN @ ELSE exc]
        /\ fs' = h.fs
        /\ IF h.caught
           THEN run_result' = h.ret /\ pc' = "returned" /\ exit_code' = exit_code
           ELSE run_result' = run_result /\ pc' = "exited" /\ exit_code' = 1

\* _download_data up to the click on the download link
StartDownload ==
    /\ pc = "download"
    /\ IF Exists(fs, expected_path) /\ args.skip_download
       THEN /\ hist' = [hist EXCEPT !.stages = Append(@, "download"),
                                    !.status["download"] = "skipped"]
            /\ csv_path' = expected_path
            /\ pc' = "ingest"
            /\ UNCHANGED <<fs, browser, run_result, exit_code>>
       ELSE \E outcome \in {"clicked", "WebDriverException", "TimeoutException"} :
               IF outcome = "clicked"
               THEN /\ hist' = [hist EXCEPT !.stages = Append(@, "download"),
                                            !.status["download"] = "running"]
                    /\ browser' = [st |-> "clicked", name |-> "", pending |-> <<>>]
                    /\ pc' = "clicked"
                    /\ UNCHANGED <<fs, csv_path, run_result, exit_code>>
               ELSE /\ StageRaises([hist EXCEPT !.stages = Append(@, "download")],
                                   "download", outcome, fs)
                    /\ UNCHANGED <<browser, csv_path>>
    /\ UNCHANGED <<args, target, environ, scraper, df, s3>>
    /\ UNCHANGED call

-----------------------------------------------------------------------------
(* scraper_module.py: the download in Chrome and the wait for it *)

Closed == [st |-> "closed", name |-> "", pending |-> <<>>]

\* the wait's locals outside the call
Idle == [polls |-> 0, files_before |-> {}]

\* the iterations of range(0, max_wait + 1, wait_interval)
range_len_inclusive(stop, step) == (stop \div step) + 1

\* number of iterations of range(0, max_wait, wait_interval)
range_len(stop, step) == (stop + step - 1) \div step

\* _wait_for_download_completion takes its files_before listing
Snapshot ==
    /\ pc = "clicked"
    /\ scraper' = [polls |-> 0, files_before |-> glob_ibov(fs)]
    /\ pc' = "waiting"
    /\ UNCHANGED <<args, target, environ, exit_code, fs, browser, csv_path, df, s3, run_result, hist>>
    /\ UNCHANGED call

\* what Chrome may download: any export under the expected name, or the export
\* of another session date under that date's name
Downloads(expected) ==
    {<<expected, sample>> : sample \in CsvSamples} \cup
    {<<get_csv_filename(OtherDate), <<Banner, FieldsOf(FullHeader, 5), FieldsOf(FullLine, 5)>>>>}

\* Chrome starts writing the export
BrowserStart ==
    /\ pc \in {"clicked", "waiting"}
    /\ browser.st = "clicked"
    /\ \E d \in Downloads(expected_filename) :
          /\ browser' = [st |-> "writing", name |-> d[1], pending |-> d[2]]
          /\ fs' = WriteFile(fs, Path(DOWNLOAD_DIR, d[1]), File(Now, <<>>))
    /\ hist' = [hist EXCEPT !.dirty = TRUE]
    /\ UNCHANGED <<args, target, environ, pc, exit_code, scraper, csv_path, df, s3, run_result>>
    /\ UNCHANGED call

\* Chrome appends the next line of the export
BrowserWrite ==
    /\ pc \in {"clicked", "waiting"}
    /\ browser.st = "writing"
    /\ LET p == Path(DOWNLOAD_DIR, browser.name)
       IN  fs' = WriteFile(fs, p, File(Now, Append(fs[p].lines, Head(browser.pending))))
    /\ browser' = [browser EXCEPT !.pending = Tail(@),
                                  !.st = IF Tail(browser.pending) = <<>> THEN "done" ELSE @]
    /\ hist' = [hist EXCEPT !.dirty = TRUE]
    /\ UNCHANGED <<args, target, environ, pc, exit_code, scraper, csv_path, df, s3, run_result>>
    /\ UNCHANGED call

SizeOf(f, name) ==
    IF Exists(f, Path(DOWNLOAD_DIR, name)) THEN Len(f[Path(DOWNLOAD_DIR, name)].lines) ELSE -1

\* the new files with the latest modification time
Newest(f, new_files) ==
    {n \in new_files : \A o \in new_files :
        f[Path(DOWNLOAD_DIR, o)].mtime <= f[Path(DOWNLOAD_DIR, n)].mtime}

\* one iteration of the wait loop: <<TRUE, name>> when a file qualifies
poll_result(f, files_before, newest) ==
    IF Exists(f, expected_path) /\ NonEmpty(f, expected_path)
    THEN <<TRUE, expected_filename>>
    ELSE IF glob_ibov(f) \ files_before # {} /\ NonEmpty(f, Path(DOWNLOAD_DIR, newest))
    THEN <<TRUE, newest>>
    ELSE <<FALSE, "">>

\* one iteration of the wait loop; on success download_ibov_data returns, the
\* driver quits and _download_data renames the file to the expected name
Poll ==
    /\ pc = "waiting"
    /\ scraper.polls < range_len(max_wait, wait_interval)
    /\ \E newest \in (IF glob_ibov(fs) \ scraper.files_before = {} THEN {""}
                      ELSE Newest(fs, glob_ibov(fs) \ scraper.files_before)) :
          LET r == poll_result(fs, scraper.files_before, newest)
          IN  IF r[1]
              THEN /\ fs' = IF r[2] # expected_filename
                            THEN Rename(fs, Path(DOWNLOAD_DIR, r[2]), expected_path) ELSE fs
                   /\ csv_path' = expected_path
                   /\ browser' = Closed
                   /\ pc' = "ingest"
                   /\ scraper' = Idle
                   /\ hist' = [hist EXCEPT
                        !.status["download"] = "ok",
                        !.wait = "found",
                        !.dirty = FALSE,
                        !.written = WriteFile(@, expected_path, fs'[expected_path]),
                        !.report = [name |-> r[2], size |-> SizeOf(fs, r[2]),
                                    grew |-> hist.dirty /\ browser.name = r[2],
                                    writing |-> browser.st = "writing" /\ browser.name = r[2]]]
              ELSE /\ scraper' = [scraper EXCEPT !.polls = @ + 1]
                   /\ hist' = [hist EXCEPT !.dirty = FALSE]
                   /\ UNCHANGED <<fs, csv_path, browser, pc>>
    /\ UNCHANGED <<args, target, environ, exit_code, df, s3, run_result>>
    /\ UNCHANGED call

\* the loop ends without a file: (False, ""), download_ibov_data raises
WaitTimeout ==
    /\ pc = "waiting"
    /\ scraper.polls >= range_len(max_wait, wait_interval)
    /\ browser' = Closed
    /\ scraper' = Idle
    /\ StageRaises([hist EXCEPT !.dirty = FALSE, !.wait = "timeout"], "download", "Exception", fs)
    /\ UNCHANGED <<args, target, environ, csv_path, df, s3>>
    /\ UNCHANGED call

-----------------------------------------------------------------------------
(* main_pipeline.py: processing, upload, cleanup, exit *)

\* _process_data, first half: process_csv_to_dataframe (ingestion and validation)
Ingest ==
    /\ pc = "ingest"
    /\ LET h0 == [hist EXCEPT !.stages = Append(@, "ingest")]
           r  == process_csv_to_dataframe(fs[csv_path].lines, TodayDate, Clock)
       IN  IF ~Exists(fs, csv_path)
           THEN StageRaises(h0, "ingest", "FileNotFoundError", fs) /\ df' = df
           ELSE IF ~r.ok
           THEN StageRaises(h0, "ingest", r.error, fs) /\ df' = df
           ELSE /\ df' = r.df
                /\ hist' = [h0 EXCEPT !.status["ingest"] = "ok"]
                /\ pc' = "write"
                /\ UNCHANGED <<fs, run_result, exit_code>>
    /\ UNCHANGED <<args, target, environ, browser, scraper, csv_path, s3>>
    /\ UNCHANGED call

\* _process_data, second half: summary and save_to_parquet; with --skip-upload
\* run_pipeline then returns True
Write ==
    /\ pc = "write"
    /\ LET h0 == [hist EXCEPT !.stages = Append(@, "write")]
       IN  \E io_ok \in BOOLEAN :
              IF io_ok
              THEN /\ fs' = WriteFile(fs, parquet_path, File(Now, parquet_rows(df)))
                   /\ hist' = [h0 EXCEPT !.status["write"] = "ok",
                                         !.written = WriteFile(@, parquet_path, fs'[parquet_path])]
                   /\ IF args.skip_upload
                      THEN run_result' = "True" /\ pc' = "returned"
                      ELSE run_result' = run_result /\ pc' = "upload"
                   /\ exit_code' = exit_code
              ELSE StageRaises(h0, "write", "OSError", fs)
    /\ UNCHANGED <<args, target, environ, browser, scraper, csv_path, df, s3>>
    /\ UNCHANGED call

\* _upload_data: upload_file returns True, returns False (bucket unreachable,
\* client error) or raises (the file vanished, the client cannot be built)
Upload ==
    /\ pc = "upload"
    /\ LET h0 == [hist EXCEPT !.stages = Append(@, "upload")]
       IN  \E outcome \in {"ok", "false", "raise"} :
              CASE outcome = "ok" ->
                     /\ s3' = WriteFile(s3, get_s3_key(target), fs[parquet_path].lines)
                     /\ hist' = [h0 EXCEPT !.status["upload"] = "ok"]
                     /\ run_result' = "True"
                     /\ pc' = "returned"
                     /\ UNCHANGED <<fs, exit_code>>
                [] outcome = "false" ->
                     /\ hist' = [h0 EXCEPT !.status["upload"] = "failed"]
                     /\ run_result' = "False"
                     /\ pc' = "returned"
                     /\ UNCHANGED <<fs, exit_code, s3>>
                [] outcome = "raise" ->
                     /\ StageRaises(h0, "upload", "Exception", fs)
                     /\ s3' = s3
    /\ UNCHANGED <<args, target, environ, browser, scraper, csv_path, df>>
    /\ UNCHANGED call

RECURSIVE SetToSeq(_)
SetToSeq(S) == IF S = {} THEN <<>> ELSE LET x == CHOOSE x \in S : TRUE
                                        IN  <<x>> \o SetToSeq(S \ {x})

\* the loop over directory.glob('*'): entries in listing order, failing are the
\* files unlink() raises on
RECURSIVE cleanup_loop(_, _, _, _)
\* a loop that gives up at the first file unlink() fails on
cleanup_loop_stop(f, entries, cutoff, failing) ==
    IF entries = <<>> THEN f
    ELSE LET p == Head(entries)
         IN  IF f[p].kind = "file" /\ f[p].mtime < cutoff
             THEN IF p \in failing THEN f
                  ELSE cleanup_loop(Remove(f, {p}), Tail(entries), cutoff, failing)
             ELSE cleanup_loop(f, Tail(entries), cutoff, failing)

cleanup_loop(f, entries, cutoff, failing) ==
    IF entries = <<>> THEN f
    ELSE LET p == Head(entries)
         IN  IF f[p].kind = "file" /\ f[p].mtime < cutoff /\ p \notin failing
             THEN cleanup_loop(Remove(f, {p}), Tail(entries), cutoff, failing)
             ELSE cleanup_loop(f, Tail(entries), cutoff, failing)

Listing(f, dir) == SetToSeq({p \in DOMAIN f : p[1] = dir})

cleanup_old_files(f, now, days, failing) ==
    LET cutoff == cutoff_time(now, days)
        f1     == cleanup_loop(f, Listing(f, DOWNLOAD_DIR), cutoff, failing)
    IN  cleanup_loop(f1, Listing(f1, DATA_DIR), cutoff, failing)

\* main: if args.cleanup and success
should_cleanup(a, success) == a.cleanup /\ success = "True"

\* files unlink() may be asked to remove
Removable(f) == {p \in DOMAIN f : f[p].kind = "file" /\ f[p].mtime < cutoff_time(Now, days_to_keep)}

CleanupOldFiles ==
    /\ pc = "returned"
    /\ should_cleanup(args, run_result)
    /\ \E failing \in SUBSET Removable(fs) :
          /\ fs' = cleanup_old_files(fs, Now, days_to_keep, failing)
          /\ hist' = [hist EXCEPT !.cleanup = "done", !.unlink_failed = failing,
                                  !.before_cleanup = fs]
    /\ pc' = "cleaned"
    /\ UNCHANGED <<args, target, environ, exit_code, browser, scraper, csv_path, df, s3, run_result>>
    /\ UNCHANGED call

\* a main that reports success whatever the run returned
exit_status_zero(success) == 0

\* 0 if success else 1
exit_status(success) == IF success = "True" THEN 0 ELSE 1

\* sys.exit(0 if success else 1)
SysExit ==
    /\ \/ pc = "cleaned"
       \/ pc = "returned" /\ ~should_cleanup(args, run_result)
    /\ exit_code' = exit_status(run_result)
    /\ pc' = "exited"
    /\ UNCHANGED <<args, target, environ, fs, browser, scraper, csv_path, df, s3, run_result, hist>>
    /\ UNCHANGED call

StageAt(p) ==
    CASE p \in {"download", "clicked", "waiting"} -> "download"
      [] p = "ingest" -> "ingest"
      [] p = "write" -> "write"
      [] p = "upload" -> "upload"

\* Ctrl-C inside main's try block (in a stage: inside the stage's method):
\* KeyboardInterrupt passes run_pipeline's except Exception, the driver quits in download_ibov_data's finally, and
\* main exits 1
Interrupt ==
    /\ pc \in {"init_env", "construct", "download", "clicked", "waiting", "ingest",
               "write", "upload", "returned", "cleaned"}
    /\ IF pc \in {"download", "clicked", "waiting", "ingest", "write", "upload"}
       THEN StageRaises([hist EXCEPT !.dirty = FALSE,
                                     !.stages = IF StageAt(pc) \in Range(@) THEN @
                                                ELSE Append(@, StageAt(pc))],
                        StageAt(pc), "KeyboardInterrupt", fs)
       ELSE /\ pc' = "exited"
            /\ exit_code' = 1
            /\ hist' = [hist EXCEPT !.fatal = "KeyboardInterrupt"]
            /\ UNCHANGED <<fs, run_result>>
    /\ browser' = Closed
    /\ scraper' = Idle
    /\ UNCHANGED <<args, target, environ, csv_path, df, s3>>
    /\ UNCHANGED call

\* cleanup_old_files does not return: Ctrl-C, or an error outside the try
\* around unlink() (glob, stat); some files are gone already
InterruptCleanup ==
    /\ pc = "returned"
    /\ should_cleanup(args, run_result)
    /\ \E gone \in SUBSET Removable(fs), exc \in {"KeyboardInterrupt", "OSError"} :
          /\ gone \subseteq {p \in DOMAIN fs : p[1] \in {DOWNLOAD_DIR, DATA_DIR}}
          /\ fs' = Remove(fs, gone)
          /\ hist' = [hist EXCEPT !.cleanup = "aborted", !.before_cleanup = fs,
                                  !.fatal = exc]
    /\ pc' = "exited"
    /\ exit_code' = 1
    /\ UNCHANGED <<args, target, environ, browser, scraper, csv_path, df, s3, run_result>>
    /\ UNCHANGED call

Next ==
    \/ LoadOnImport
    \/ ParseArgs
    \/ InitializeEnvironment
    \/ Construct
    \/ StartDownload
    \/ Snapshot
    \/ BrowserStart
    \/ BrowserWrite
    \/ Poll
    \/ WaitTimeout
    \/ Ingest
    \/ Write
    \/ Upload
    \/ CleanupOldFiles
    \/ SysExit
    \/ Interrupt
    \/ InterruptCleanup

Spec == Init /\ [][Next]_vars

-----------------------------------------------------------------------------
(* run_pipeline with --skip-download on a file that is already there *)

\* the state StartDownload leaves when the expected CSV exists and the download
\* is skipped, for every file of IngestFiles
IngestInit ==
    /\ args \in [skip_download : {TRUE}, skip_upload : BOOLEAN, cleanup : {FALSE},
                 create_env : {FALSE}, date : {<<>>}]
    /\ environ = [k \in RequiredVars |-> "key"]
    /\ target = TodayDate
    /\ csv_path = Path(DOWNLOAD_DIR, get_csv_filename(TodayDate))
    /\ \E lines \in IngestFiles :
          fs = WriteFile(WriteFile(Junk, Path(LOGS_DIR, "B3DataPipeline_20250804.log"),
                                   File(Now, <<>>)),
                         Path(DOWNLOAD_DIR, get_csv_filename(TodayDate)), File(Now, lines))
    /\ pc = "ingest"
    /\ exit_code = -1
    /\ browser = Closed
    /\ scraper = Idle
    /\ df = [columns |-> <<>>, rows |-> <<>>]
    /\ s3 = EmptyFs
    /\ run_result = "none"
    /\ hist = [InitHist EXCEPT !.built = TRUE, !.stages = <<"download">>,
                               !.status["download"] = "skipped"]
    /\ call = NoCall

IngestNext ==
    \/ Ingest
    \/ Write
    \/ Upload
    \/ SysExit

SpecIngest == IngestInit /\ [][IngestNext]_vars

-----------------------------------------------------------------------------
(* The helpers called directly, as the unit tests call them *)

\* the texts of at most n characters of a set
Texts(chars, n) == UNION {[1..k -> chars] : k \in 0..n}

\* column names: letters, a digit, '_', characters that are removed and
\* characters unidecode rewrites; the names of test_clean_column_name
NameChars == {"a", "Z", "7", "_", " ", "%", "ç", "ß"}

TestNames ==
    { <<"C","ó","d","i","g","o"," ","d","a"," ","A","ç","ã","o">>,
      <<"P","a","r","t","."," ","(","%",")">>,
      <<"T","E","S","T","E","_","1","2","3">> }

ColumnNameInputs == {None, NaN} \cup {Str(t) : t \in Texts(NameChars, MaxName) \cup TestNames}

\* values of a series of strings: the values of test_clean_numeric_field,
\* blanks and a percent sign, a minus sign, N/A, a decimal point
NumericTexts ==
    << <<"1",".","2","3","4",",","5","6">>, <<"9","9","9",",","9","9">>, <<"i","n","v","a","l","i","d">>, <<>>,
       <<" ","1","2",",","5","%"," ">>, <<"-","3",",","5">>, <<"N","/","A">>, <<"1",".","5">> >>

TestSeries == <<NumericTexts[1], NumericTexts[2], NumericTexts[3], NumericTexts[4]>>

SeriesInputs ==
    {[i \in 1..Len(s) |-> Str(NumericTexts[s[i]])] :
        s \in Texts(1..Len(NumericTexts), MaxSeries)}
    \cup {[i \in 1..Len(TestSeries) |-> Str(TestSeries[i])]}

\* tables with any of the seven columns and up to MaxRows rows
FrameInputs ==
    {[columns |-> RowsOf(Names7, S),
      rows |-> [i \in 1..n |-> [j \in 1..Cardinality(S) |-> Str(<<"x">>)]]] :
        S \in SUBSET (1..Len(Names7)), n \in 0..MaxRows}

\* dates: the date of test_get_s3_key, the day of the run, ends of months
DateInputs ==
    { [y |-> 2024, m |-> 1, d |-> 15], TodayDate, OtherDate,
      [y |-> 2025, m |-> 12, d |-> 31], [y |-> 2000, m |-> 2, d |-> 29] }

\* a file and the days of two runs on it: two rows under each banner, a
\* file with its own date column, the test CSV, a file without valid row
RerunInputs ==
    {[lines |-> f, days |-> <<d1, d2>>] :
        f \in {<<b, FieldsOf(FullHeader, 5), GoodRow1, GoodRow2>> : b \in Banners}
               \cup {<<BannerNoDate, FullHeader, FullLine, BadDateRow>>, TestCsv,
                     <<Banner, BadLine>>},
        d1 \in {TodayDate, OtherDate}, d2 \in {TodayDate, OtherDate}}

Pending(fn, arg, flag) == [fn |-> fn, arg |-> arg, flag |-> flag, result |-> <<>>, done |-> FALSE]

\* one call is about to be made; the pipeline is not running
CallsInit ==
    /\ \/ \E x \in ColumnNameInputs : call = Pending("clean_column_name", x, FALSE)
       \/ \E x \in SeriesInputs, f \in BOOLEAN : call = Pending("clean_numeric_field", x, f)
       \/ \E x \in FrameInputs : call = Pending("validate_dataframe", x, FALSE)
       \/ \E x \in DateInputs : call = Pending("get_s3_key", x, FALSE)
       \/ \E x \in DateInputs : call = Pending("get_filenames", x, FALSE)
       \/ \E x \in RerunInputs : call = Pending("ingest_and_write", x, FALSE)
    /\ environ = [k \in RequiredVars |-> "key"]
    /\ args = [skip_download |-> FALSE, skip_upload |-> FALSE, cleanup |-> FALSE,
               create_env |-> FALSE, date |-> <<>>]
    /\ fs = EmptyFs
    /\ pc = "import"
    /\ exit_code = -1
    /\ browser = Closed
    /\ scraper = Idle
    /\ target = NoDate
    /\ csv_path = <<>>
    /\ df = [columns |-> <<>>, rows |-> <<>>]
    /\ s3 = EmptyFs
    /\ run_result = "none"
    /\ hist = InitHist

Returns(value) ==
    /\ call' = [call EXCEPT !.result = value, !.done = TRUE]
    /\ UNCHANGED <<args, environ, pc, exit_code, fs, browser, scraper, target, csv_path, df,
                   s3, run_result, hist>>

CallCleanColumnName ==
    /\ call.fn = "clean_column_name" /\ ~call.done
    /\ Returns(clean_column_name(call.arg))

\* the series of the tests are built from Python strings: dtype object
CallCleanNumericField ==
    /\ call.fn = "clean_numeric_field" /\ ~call.done
    /\ Returns(clean_numeric_series(call.arg, "object", call.flag))

CallValidateDataframe ==
    /\ call.fn = "validate_dataframe" /\ ~call.done
    /\ Returns(validate_dataframe(call.arg))

CallGetS3Key ==
    /\ call.fn = "get_s3_key" /\ ~call.done
    /\ Returns(get_s3_key(call.arg))

\* process_csv_to_dataframe and save_to_parquet on the same file, once on each
\* of the two days: the rows stored by each run
CallIngestAndWrite ==
    /\ call.fn = "ingest_and_write" /\ ~call.done
    /\ call' = [call EXCEPT
                  !.result = Append(@,
                      With(process_csv_to_dataframe(call.arg.lines,
                                                    call.arg.days[Len(call.result) + 1], Clock),
                           LAMBDA r : [ok |-> r.ok, rows |-> parquet_rows(r.df)])),
                  !.done = (Len(call.result) = 1)]
    /\ UNCHANGED <<args, environ, pc, exit_code, fs, browser, scraper, target, csv_path, df,
                   s3, run_result, hist>>

\* get_csv_filename and get_parquet_filename of the same date
CallGetFilenames ==
    /\ call.fn = "get_filenames" /\ ~call.done
    /\ Returns(<<get_csv_filename(call.arg), get_parquet_filename(call.arg)>>)

CallsNext ==
    \/ CallIngestAndWrite
    \/ CallGetFilenames
    \/ CallCleanColumnName
    \/ CallCleanNumericField
    \/ CallValidateDataframe
    \/ CallGetS3Key

SpecCalls == CallsInit /\ [][CallsNext]_vars

-----------------------------------------------------------------------------
(* Properties *)

StageOrder == <<"download", "ingest", "write", "upload">>

\* C1: the stages of a run are attempted in the order download, ingest, write,
\* upload, each at most once; a stage is attempted only after the stage before
\* it ended without error (ok, or the download skipped), so nothing is attempted
\* after a failed stage.
C1_StagesInOrderOnce ==
    /\ Len(hist.stages) <= Len(StageOrder)
    /\ hist.stages = SubSeq(StageOrder, 1, Len(hist.stages))
    /\ \A k \in 1..(Len(hist.stages) - 1) : hist.status[hist.stages[k]] \in {"ok", "skipped"}
    /\ \A st \in Stages : hist.status[st] = "failed" =>
          Len(hist.stages) > 0 /\ st = hist.stages[Len(hist.stages)]
    /\ \A st \in Stages : hist.status[st] # "idle" <=> st \in Range(hist.stages)

\* a run that attempted all four stages, the upload included
C1_Witness ==
    /\ hist.stages = StageOrder
    /\ hist.status["upload"] = "ok"
    /\ pc = "returned"

\* C2: an exception of class Exception raised in a stage never leaves
\* run_pipeline, which then returns False; run_pipeline returns True only when
\* download (or its skip), ingest and write succeeded and, unless the upload is
\* skipped, upload_file returned True.
C2_NoEscapeAndTrueOnlyOnSuccess ==
    /\ hist.escaped \notin ExceptionClasses
    /\ hist.raised \in ExceptionClasses => run_result = "False" /\ pc \in {"returned", "exited"}
    /\ run_result = "True" =>
          /\ hist.raised = "none"
          /\ hist.status["download"] \in {"ok", "skipped"}
          /\ hist.status["ingest"] = "ok"
          /\ hist.status["write"] = "ok"
          /\ IF args.skip_upload THEN hist.status["upload"] = "idle"
             ELSE hist.status["upload"] = "ok" /\ get_s3_key(target) \in DOMAIN s3

\* the browser failed in the download stage and run_pipeline returned False
C2_Witness ==
    /\ hist.raised = "WebDriverException"
    /\ hist.status["download"] = "failed"
    /\ run_result = "False"
    /\ pc = "returned"

\* C3: when run_pipeline has returned False, every file the run wrote (the
\* downloaded CSV, the Parquet file) is still on disk with the content and the
\* modification time it was written with.
C3_NoRollback ==
    run_result = "False" =>
        \A p \in DOMAIN hist.written : Exists(fs, p) /\ fs[p] = hist.written[p]

\* the upload raised after both files were written
C3_Witness ==
    /\ run_result = "False"
    /\ hist.status["upload"] = "failed"
    /\ hist.raised = "Exception"
    /\ DOMAIN hist.written = {expected_path, parquet_path}

\* C4 as claimed: with --cleanup, once run_pipeline has returned (True or
\* False) and main has exited undisturbed, cleanup_old_files has been executed.
C4_CleanupWhateverTheOutcome ==
    (pc = "exited" /\ args.cleanup /\ run_result \in {"True", "False"} /\ hist.fatal = "none")
        => hist.cleanup = "done"

\* C5: cleanup_old_files removes only regular files directly in the download
\* and data directories that are older than the cutoff, leaves everything else
\* as it was, and removes every such file unlink() did not fail on, whatever
\* failed before it.
C5_CleanupDeletesOnlyOldFiles ==
    hist.cleanup = "done" =>
        LET before == hist.before_cleanup
            cutoff == Now - days_to_keep * 24 * 3600
            old(p) == /\ before[p].kind = "file"
                      /\ p[1] \in {DOWNLOAD_DIR, DATA_DIR}
                      /\ before[p].mtime < cutoff
        IN  /\ DOMAIN fs \subseteq DOMAIN before
            /\ \A p \in DOMAIN fs : fs[p] = before[p]
            /\ \A p \in DOMAIN before \ DOMAIN fs : old(p)
            /\ \A p \in DOMAIN before : old(p) /\ p \notin hist.unlink_failed => ~Exists(fs, p)

\* a cleanup where one unlink() failed and another old file was removed
C5_Witness ==
    /\ hist.cleanup = "done"
    /\ hist.unlink_failed # {}
    /\ DOMAIN hist.before_cleanup \ DOMAIN fs # {}
    /\ \E p \in DOMAIN fs : p[1] = LOGS_DIR /\ fs[p].mtime < Now - days_to_keep * 24 * 3600

\* C6 as claimed: main exits 0 exactly when the pipeline run succeeded.
C6_ExitZeroIffRunSucceeded ==
    pc = "exited" => (exit_code = 0 <=> run_result = "True")

\* C6 amended: without --create-env the exit code is 0 exactly when
\* run_pipeline returned True and neither an interrupt nor an error reached main
\* afterwards; it is 1 for a bad --date, a failed environment initialization, a
\* failed construction, a run that returned False, and an interrupt. With
\* --create-env main exits 0 without running anything.
C6_ExitCode ==
    pc = "exited" =>
        /\ exit_code \in {0, 1}
        /\ args.create_env => exit_code = 0 /\ run_result = "none" /\ ~hist.built
        /\ ~args.create_env =>
              /\ exit_code = 0 <=> (run_result = "True" /\ hist.fatal = "none")
              /\ (args.date # <<>> /\ strptime_Ymd(args.date) = <<>>) => exit_code = 1
              /\ (\E k \in RequiredVars : environ[k] \in {Missing, "", " "}) => exit_code = 1
              /\ run_result = "False" => exit_code = 1
              /\ hist.fatal # "none" => exit_code = 1

\* a successful run that exited 0
C6_Witness ==
    /\ pc = "exited"
    /\ ~args.create_env
    /\ run_result = "True"
    /\ exit_code = 0

\* C7 as claimed: whenever a required variable is missing or blank after the
\* .env file is loaded, main exits 1 without a pipeline and without a stage.
C7_ConfigErrorExitsOne ==
    (pc = "exited" /\ (\E k \in RequiredVars : environ[k] \in {Missing, "", " "}))
        => exit_code = 1 /\ ~hist.built /\ hist.stages = <<>>

\* C7 amended: with a required variable missing or blank the pipeline is never
\* constructed and no stage starts, also with --skip-upload; main exits 1,
\* except with --create-env, where it exits 0 before the configuration is looked at.
C7_ConfigErrorsFatal ==
    (\E k \in RequiredVars : environ[k] \in {Missing, "", " "}) =>
        /\ ~hist.built
        /\ hist.stages = <<>>
        /\ run_result = "none"
        /\ pc \in {"import", "main", "init_env", "exited"}
        /\ pc = "exited" => exit_code = (IF args.create_env THEN 0 ELSE 1)

\* a blank variable, --skip-upload, exit 1 from the environment check
C7_Witness ==
    /\ pc = "exited"
    /\ \E k \in RequiredVars : environ[k] \in {"", " "}
    /\ args.skip_upload
    /\ ~args.create_env
    /\ hist.fatal = "none"
    /\ exit_code = 1

\* C8: the wait polls at most 30 times; when no poll finds a file the download
\* stage fails, run_pipeline returns False and nothing is ingested.
C8_BoundedWait ==
    /\ scraper.polls <= 30
    /\ range_len(max_wait, wait_interval) = 30
    /\ pc = "waiting" /\ scraper.polls = 30 => ~ENABLED Poll
    /\ hist.wait = "timeout" =>
          /\ hist.status["download"] = "failed"
          /\ hist.stages = <<"download">>
          /\ run_result = "False"
          /\ csv_path = <<>>
          /\ df.rows = <<>>
          /\ hist.report = NoReport

\* the thirtieth poll found nothing and the run ended as failed
C8_Witness ==
    /\ hist.wait = "timeout"
    /\ pc = "exited"
    /\ exit_code = 1

\* C9 as claimed: the file the wait reports was not written to since the poll
\* before and is not being written any more.
C9_ReportedFileIsStable ==
    hist.wait = "found" => ~hist.report.grew /\ ~hist.report.writing

\* the line the probe reads and the rows that came out of it
ProbedWidth == Len(DataLines(fs[csv_path].lines)[1])

\* C10: with 7 or more fields in the probed line the date and the timestamp of
\* every row come from the sixth and seventh field of its line; with 5 or 6
\* fields they are the date of the banner and the day of the run; with fewer
\* than 5 fields ingestion fails with ValueError, no row is produced and the
\* run returns False.
C10_SchemaFromProbedLine ==
    (/\ hist.status["ingest"] \in {"ok", "failed"}
     /\ hist.raised # "KeyboardInterrupt"
     /\ pc \in {"write", "upload", "returned"}
     /\ Exists(fs, csv_path)
     /\ DataLines(fs[csv_path].lines) # <<>>) =>
        LET data == DataLines(fs[csv_path].lines)
            from_line(row, l) ==
                /\ Len(l) >= 7
                /\ row[2] = Str(l[2]) /\ row[3] = Str(l[3])
                /\ row[6] = to_datetime_dmY(Str(l[6]))
                /\ row[7] = to_datetime_iso(Str(l[7]))
            synthesized(row, l) ==
                /\ row[2] = Str(l[2]) /\ row[3] = Str(l[3])
                /\ row[6] = Date(2025, 8, 4)
                /\ row[7] = Date(TodayDate.y, TodayDate.m, TodayDate.d)
        IN  /\ ProbedWidth >= 7 /\ hist.status["ingest"] = "ok" =>
                \A i \in 1..Len(df.rows) : \E j \in 1..Len(data) : from_line(df.rows[i], data[j])
            /\ ProbedWidth \in 5..6 /\ hist.status["ingest"] = "ok" =>
                \A i \in 1..Len(df.rows) : \E j \in 1..Len(data) : synthesized(df.rows[i], data[j])
            /\ hist.status["ingest"] = "ok" => df.rows # <<>> /\ df.columns = Names7
            /\ ProbedWidth < 5 =>
                /\ hist.status["ingest"] = "failed"
                /\ hist.raised = "ValueError"
                /\ df.rows = <<>>
                /\ run_result = "False"
                /\ hist.status["write"] = "idle"

\* a file of 6 fields was ingested: its own date field was not used
C10_Witness ==
    /\ hist.status["ingest"] = "ok"
    /\ pc = "write"
    /\ Exists(fs, csv_path)
    /\ ProbedWidth = 6
    /\ Len(df.rows) = 1
    /\ df.rows[1][6] = Date(2025, 8, 4)

-----------------------------------------------------------------------------
(* Properties of the ingestion, on files handed to it directly *)

\* the data lines of the file being ingested
IngestedLines == fs[csv_path].lines

\* C11: every row of the table process_csv_to_dataframe returns has a codigo
\* that is not null and a qtdeteorica and a part that are not NaN; the rows
\* without them are gone before the table is validated and returned.
C11_RequiredFieldsPresent ==
    \A i \in 1..Len(df.rows) :
        /\ df.rows[i][1].t = "str"
        /\ df.rows[i][4].t = "num"
        /\ df.rows[i][5].t = "num"

\* a file with a row whose quantity does not parse and a row whose
\* participation does not parse was ingested, and a table was returned
C11_Witness ==
    /\ hist.status["ingest"] = "ok"
    /\ BadLine \in Range(IngestedLines)
    /\ BadPartRow \in Range(IngestedLines)
    /\ df.rows # <<>>

\* lines whose qtdeteorica or part does not parse or whose codigo is missing:
\* the header-like lines and three kinds of rows
Offending ==
    {FieldsOf(FullHeader, 5), FullHeader, TestCsv[2], BadLine, BadPartRow, NoCodeRow,
     BadQtRow7}

\* the lines after the banner that are not offending, in the order of the file
Remaining == SelectSeq(Tail(IngestedLines), LAMBDA l : l \notin Offending)

\* the cell read from a field that is passed through
Passed(field) == IF field = <<>> THEN NaN ELSE Str(field)

\* C12 as stated: no returned row lacks a numeric or a date value, and rows
\* with row-level errors never make the ingestion fail.
C12_OffendingRowsDropped ==
    /\ \A i \in 1..Len(df.rows) :
          /\ df.rows[i][4].t = "num" /\ df.rows[i][5].t = "num"
          /\ df.rows[i][6].t = "date" /\ df.rows[i][7].t = "date"
    /\ hist.status["ingest"] # "failed"

\* C12, amended: a row whose qtdeteorica or part does not parse or whose
\* codigo, qtdeteorica or part is missing is dropped, and only that row: the
\* other rows are returned in the order of the file. A row whose data_pregao
\* or timestamp_extracao does not parse is kept, with the missing marker in
\* that field. The ingestion fails exactly when no row is left.
C12_OnlyRequiredFieldsDrop ==
    /\ hist.status["ingest"] = "ok" =>
          /\ Remaining # <<>>
          /\ Len(df.rows) = Len(Remaining)
          /\ \A i \in 1..Len(df.rows) :
                /\ df.rows[i][2] = Passed(Remaining[i][2])
                /\ Remaining[i] = BadDateRow =>
                      df.rows[i][6] = NaN /\ df.rows[i][7].t = "date"
                /\ Remaining[i] = BadStampRow =>
                      df.rows[i][6].t = "date" /\ df.rows[i][7] = NaN
    /\ hist.status["ingest"] = "failed" => Remaining = <<>>

\* a file with a row of unparseable quantity and a row of unparseable date
\* was ingested: the first is gone, the second is in the table without date
C12_Witness ==
    /\ hist.status["ingest"] = "ok"
    /\ BadQtRow7 \in Range(IngestedLines)
    /\ BadDateRow \in Range(IngestedLines)
    /\ \E i \in 1..Len(df.rows) : df.rows[i][6] = NaN

\* C13: every row emitted by the ingestion has an uppercase codigo that
\* matches CODIGO_PATTERN; rows with an empty, blank or otherwise formed code
\* are filtered out.
C13_CodigoMatchesPattern ==
    \A i \in 1..Len(df.rows) :
        df.rows[i][1].t = "str" /\ CODIGO_PATTERN(df.rows[i][1].v)

\* files made of a banner, a header-like line, valid rows and one footer
ValidRows == {GoodRow1, GoodRow2, TestCsv[3], TestCsv[4], TestCsv[5]}
Footers == {NoCodeRow, TotalRow}
HeaderLike == {FieldsOf(FullHeader, 5), TestCsv[2]}

FooterFile(lines) ==
    /\ Len(lines) >= 4
    /\ lines[2] \in HeaderLike
    /\ lines[Len(lines)] \in Footers
    /\ \A i \in 3..(Len(lines) - 1) : lines[i] \in ValidRows

\* C14: of a file made of a banner, a header-like line, n valid rows and one
\* footer row (without code, or with the code Total and parseable numbers)
\* exactly the n valid rows are returned.
C14_ExactlyTheDataRows ==
    FooterFile(IngestedLines) /\ pc # "ingest" =>
        /\ hist.status["ingest"] = "ok"
        /\ Len(df.rows) = Len(IngestedLines) - 3
        /\ \A i \in 1..Len(df.rows) : df.rows[i][2] = Str(IngestedLines[i + 2][2])

\* the banners that hold a date dd/mm/yy, each with the day it names
BannerDates ==
    { <<Banner, Date(2025, 8, 4)>>, <<Banner99, Date(2099, 12, 31)>>,
      <<Banner24, Date(2024, 2, 29)>> }

\* C15: when the file has no data_pregao column (fewer than 6 fields on the
\* probed line) and the banner holds a date dd/mm/yy, every row of the
\* returned table has the session date 20yy-mm-dd.
C15_SessionDateFromBanner ==
    \A p \in BannerDates :
        IngestedLines[1] = p[1] /\ Len(IngestedLines[2]) < 6 =>
            \A i \in 1..Len(df.rows) : df.rows[i][6] = p[2]

\* two rows were returned from a file under the banner of 31/12/99
C15_Witness ==
    /\ hist.status["ingest"] = "ok"
    /\ IngestedLines[1] = Banner99
    /\ Len(IngestedLines[2]) = 5
    /\ Len(df.rows) = 2
    /\ \A i \in 1..2 : df.rows[i][6] = Date(2099, 12, 31)

\* C17: when no row is left after cleaning, so that the validation of the
\* table fails, the run fails: run_pipeline returns False and neither
\* save_to_parquet nor upload_file is invoked.
C17_ValidationFailureFailsRun ==
    Remaining = <<>> =>
        /\ hist.status["write"] = "idle"
        /\ hist.status["upload"] = "idle"
        /\ ~Exists(fs, parquet_path)
        /\ s3 = EmptyFs
        /\ run_result # "True"
        /\ pc \in {"returned", "exited"} =>
              hist.status["ingest"] = "failed" /\ run_result = "False"

\* the run on a file whose only row has an unparseable quantity ended: the
\* validation raised ValueError and the process exits with code 1
C17_Witness ==
    /\ Remaining = <<>>
    /\ BadLine \in Range(IngestedLines)
    /\ hist.raised = "ValueError"
    /\ run_result = "False"
    /\ pc = "exited"
    /\ exit_code = 1

-----------------------------------------------------------------------------
(* Properties of the helpers called directly *)

\* C16: validate_dataframe returns a boolean on every table: False exactly
\* when the table has no rows or lacks a name of REQUIRED_COLUMNS, True
\* otherwise.
C16_ValidateDataframe ==
    call.fn = "validate_dataframe" /\ call.done =>
        /\ call.result \in BOOLEAN
        /\ call.result = FALSE <=>
              \/ call.arg.rows = <<>>
              \/ \E name \in Range(REQUIRED_COLUMNS) : name \notin Range(call.arg.columns)

\* a table with rows but without the column part was rejected
C16_Witness ==
    /\ call.fn = "validate_dataframe" /\ call.done
    /\ call.arg.rows # <<>>
    /\ Range(REQUIRED_COLUMNS) \ Range(call.arg.columns) = {"part"}
    /\ call.result = FALSE

\* what is left of each character of NameChars: the letter in lower case,
\* the digit, '_', nothing of a blank or a percent sign, c of c-cedilla, ss
\* of sharp s
LeftOf(c) ==
    CASE c = "a" -> <<"a">>
      [] c = "Z" -> <<"z">>
      [] c = "7" -> <<"7">>
      [] c = "_" -> <<"_">>
      [] c = "ç" -> <<"c">>
      [] c = "ß" -> <<"s", "s">>
      [] OTHER -> <<>>

RECURSIVE LeftOfAll(_)
LeftOfAll(text) ==
    IF text = <<>> THEN <<>> ELSE LeftOf(Head(text)) \o LeftOfAll(Tail(text))

\* the results test_clean_column_name expects
ExpectedNames ==
    { <<<<"C","ó","d","i","g","o"," ","d","a"," ","A","ç","ã","o">>,
        <<"c","o","d","i","g","o","d","a","a","c","a","o">>>>,
      <<<<"P","a","r","t","."," ","(","%",")">>, <<"p","a","r","t">>>>,
      <<<<"T","E","S","T","E","_","1","2","3">>, <<"t","e","s","t","e","_","1","2","3">>>> }

\* C18: clean_column_name returns a non-empty string of characters of
\* [a-z0-9_]: the input without diacritics and without the characters outside
\* [a-zA-Z0-9_], in lower case, and unnamed_column when the input is null or
\* empty or nothing of it is left.
C18_CleanColumnName ==
    call.fn = "clean_column_name" /\ call.done =>
        /\ call.result # <<>>
        /\ \A i \in 1..Len(call.result) :
              call.result[i] \in Range(Lower) \cup Digits \cup {"_"}
        /\ call.arg.t \in {"none", "nan"} => call.result = unnamed_column
        /\ call.arg.t = "str" /\ call.arg.v \in Texts(NameChars, MaxName) =>
              call.result = IF LeftOfAll(call.arg.v) = <<>> THEN unnamed_column
                            ELSE LeftOfAll(call.arg.v)
        /\ \A e \in ExpectedNames : call.arg = Str(e[1]) => call.result = e[2]

\* the first name of the test was cleaned: accents, blanks and capitals gone
C18_Witness ==
    /\ call.fn = "clean_column_name" /\ call.done
    /\ call.arg = Str(<<"C","ó","d","i","g","o"," ","d","a"," ","A","ç","ã","o">>)
    /\ call.result = <<"c","o","d","i","g","o","d","a","a","c","a","o">>

\* the number each text of NumericTexts stands for, with the thousands flag
\* and without: 1.234,56 is 1234.56 only when grouped, 1.5 is 15 when
\* grouped, the minus sign of -3,5 is deleted
ExpectedNumber(text, grouped) ==
    CASE text = NumericTexts[1] -> IF grouped THEN Num(123456, 2) ELSE NaN
      [] text = NumericTexts[2] -> Num(99999, 2)
      [] text = NumericTexts[5] -> Num(125, 1)
      [] text = NumericTexts[6] -> Num(35, 1)
      [] text = NumericTexts[8] -> IF grouped THEN Num(15, 0) ELSE Num(15, 1)
      [] OTHER -> NaN

\* C19: clean_numeric_field converts each value of a series of strings by
\* itself: blanks stripped, '%', '-', 'nan' and 'N/A' deleted, '.' deleted only
\* with the thousands flag, ',' replaced by '.', the result parsed, the
\* missing marker for what does not parse.
C19_CleanNumericField ==
    call.fn = "clean_numeric_field" /\ call.done =>
        /\ Len(call.result) = Len(call.arg)
        /\ \A i \in 1..Len(call.arg) :
              call.result[i] = ExpectedNumber(call.arg[i].v, call.flag)

\* the series of the test was converted with the flag set
C19_Witness ==
    /\ call.fn = "clean_numeric_field" /\ call.done /\ call.flag
    /\ Len(call.arg) = 4
    /\ call.arg[1] = Str(NumericTexts[1])
    /\ call.result[1] = Num(123456, 2)
    /\ call.result[2] = Num(99999, 2)
    /\ call.result[3] = NaN
    /\ call.result[4] = NaN

\* C20: for every date d, get_s3_key(d) is
\* raw/date=<YYYY-MM-DD of d>/IBOVDia_<dd-mm-yy of d>.parquet.
C20_DatePartitionedKey ==
    call.fn = "get_s3_key" /\ call.done =>
        call.result = "raw/date=" \o ToString(call.arg.y) \o "-" \o Pad2(call.arg.m) \o "-"
                      \o Pad2(call.arg.d) \o "/IBOVDia_" \o Pad2(call.arg.d) \o "-"
                      \o Pad2(call.arg.m) \o "-" \o Pad2(call.arg.y % 100) \o ".parquet"

\* C21: for every date d, get_csv_filename(d) is IBOVDia_<dd-mm-yy>.csv and
\* get_parquet_filename(d) is the same name with the extension .parquet.
C21_FilenamesFromDate ==
    call.fn = "get_filenames" /\ call.done =>
        /\ call.result[1] = "IBOVDia_" \o Pad2(call.arg.d) \o "-" \o Pad2(call.arg.m) \o "-"
                            \o Pad2(call.arg.y % 100) \o ".csv"
        /\ call.result[2] = "IBOVDia_" \o Pad2(call.arg.d) \o "-" \o Pad2(call.arg.m) \o "-"
                            \o Pad2(call.arg.y % 100) \o ".parquet"
        /\ call.arg = [y |-> 2024, m |-> 1, d |-> 15] =>
              call.result = <<"IBOVDia_15-01-24.csv", "IBOVDia_15-01-24.parquet">>

\* the names of 2000-02-29 were computed: the year is written 00
C21_Witness ==
    /\ call.fn = "get_filenames" /\ call.done
    /\ call.arg = [y |-> 2000, m |-> 2, d |-> 29]
    /\ call.result = <<"IBOVDia_29-02-00.csv", "IBOVDia_29-02-00.parquet">>

-----------------------------------------------------------------------------
(* Properties of the artifact and of the download, on whole runs *)

\* C22: the dd-mm-yy in the name of the Parquet file a run writes is the
\* session date of every row stored in that file.
C22_ArtifactNamedFromSessionDate ==
    parquet_path \in DOMAIN hist.written =>
        \A i \in 1..Len(hist.written[parquet_path].lines) :
            hist.written[parquet_path].lines[i][6]
                = strftime_Ymd(Date(target.y, target.m, target.d))

\* C23 as stated: two runs of ingestion and write on the same file, at any
\* two points in time, store the same rows, the extraction timestamp aside.
C23_IdempotentAnyTime ==
    call.fn = "ingest_and_write" /\ call.done =>
        /\ call.result[1].ok = call.result[2].ok
        /\ Len(call.result[1].rows) = Len(call.result[2].rows)
        /\ \A i \in 1..Len(call.result[1].rows), j \in 1..6 :
              call.result[1].rows[i][j] = call.result[2].rows[i][j]

\* C23, amended: the two runs store the same rows, the extraction timestamp
\* aside, when the file has a data_pregao column or a date in its banner, or
\* when both runs happen on the same day; without either, the rows are the
\* same in the first five columns and data_pregao is the day of each run.
C23_IdempotentWithSessionDate ==
    call.fn = "ingest_and_write" /\ call.done =>
        /\ call.result[1].ok = call.result[2].ok
        /\ Len(call.result[1].rows) = Len(call.result[2].rows)
        /\ \A i \in 1..Len(call.result[1].rows), j \in 1..5 :
              call.result[1].rows[i][j] = call.result[2].rows[i][j]
        /\ (call.arg.lines[1] # BannerNoDate \/ Len(call.arg.lines[2]) >= 7
              \/ call.arg.days[1] = call.arg.days[2]) =>
              \A i \in 1..Len(call.result[1].rows) :
                  call.result[1].rows[i][6] = call.result[2].rows[i][6]
        /\ call.arg.lines[1] = BannerNoDate /\ Len(call.arg.lines[2]) < 6 =>
              \A k \in 1..2 : \A i \in 1..Len(call.result[k].rows) :
                  call.result[k].rows[i][6]
                      = strftime_Ymd(Date(call.arg.days[k].y, call.arg.days[k].m,
                                          call.arg.days[k].d))

\* a file under the banner of 04/08/25 was ingested and written on two
\* different days: both artifacts say 2025-08-04
C23_Witness ==
    /\ call.fn = "ingest_and_write" /\ call.done
    /\ call.arg.lines[1] = Banner
    /\ call.arg.days = <<OtherDate, TodayDate>>
    /\ Len(call.result[1].rows) = 2
    /\ \A k \in 1..2, i \in 1..2 :
          call.result[k].rows[i][6] = Str(<<"2","0","2","5","-","0","8","-","0","4">>)

\* C24: every row emitted by the ingestion has a part between 0 and 100.
C24_PartWithinRange ==
    \A i \in 1..Len(df.rows) :
        /\ df.rows[i][5].t = "num"
        /\ df.rows[i][5].v[1] >= 0
        /\ df.rows[i][5].v[1] <= 100 * Pow10(df.rows[i][5].v[2])

\* C25: when the expected CSV exists before the download and the download is
\* not skipped, the file _download_data returns is the one this run's
\* download produced, never the file that was there before.
C25_DownloadReturnsThisRunsFile ==
    hist.status["download"] = "ok" =>
        /\ expected_path \in DOMAIN hist.written
        /\ hist.written[expected_path] # OldCsv

\* C26: whenever the browser has produced a non-empty IBOVDia_*.csv file,
\* under the expected name or another, and the wait has an iteration left,
\* that iteration reports a file: the expected file is there and not empty,
\* or the produced file counts as new against the files_before listing.
C26_ProducedFileIsReported ==
    /\ pc = "waiting"
    /\ browser.st = "done"
    /\ scraper.polls < range_len(max_wait, wait_interval)
    => \/ Exists(fs, expected_path) /\ NonEmpty(fs, expected_path)
       \/ /\ browser.name \in glob_ibov(fs) \ scraper.files_before
          /\ NonEmpty(fs, Path(DOWNLOAD_DIR, browser.name))

\* C27: with skip_download and the CSV of the target date in place, the
\* scraper is not invoked and the file is used as it is; without that file the
\* download is attempted despite the flag. When _download_data has returned,
\* the path is the one named get_csv_filename(target_date), and a file that
\* arrived under another name has been renamed to it.
C27_SkipDownloadAndReturnedName ==
    /\ hist.status["download"] = "skipped" =>
          /\ args.skip_download
          /\ hist.wait = "none" /\ hist.report = NoReport
          /\ browser = Closed /\ scraper = Idle
          /\ csv_path = Path(DOWNLOAD_DIR, get_csv_filename(target))
          /\ hist.cleanup = "none" =>
                Exists(fs, csv_path) /\ fs[csv_path] = OldCsv
    /\ args.skip_download /\ (hist.status["download"] \in {"running", "ok"} \/ hist.wait # "none") =>
          ~(Exists(fs, expected_path) /\ fs[expected_path] = OldCsv)
    /\ hist.status["download"] = "ok" =>
          /\ csv_path = Path(DOWNLOAD_DIR, get_csv_filename(target))
          /\ pc = "ingest" =>
                /\ Exists(fs, csv_path)
                /\ hist.report.name # get_csv_filename(target) =>
                      ~Exists(fs, Path(DOWNLOAD_DIR, hist.report.name))

\* with --skip-download and no CSV of the target date, the download ran; the
\* file arrived under the name of another session and was renamed
C27_Witness ==
    /\ args.skip_download
    /\ hist.status["download"] = "ok"
    /\ pc = "ingest"
    /\ hist.report.name = get_csv_filename(OtherDate)
    /\ Exists(fs, csv_path)
    /\ ~Exists(fs, Path(DOWNLOAD_DIR, get_csv_filename(OtherDate)))

\* C28: a file without a data_pregao column whose banner carries the date
\* with a four-digit year, 15/01/2024, yields the session date 2024-01-15 on
\* every row.
C28_FourDigitYearBanner ==
    IngestedLines[1] = TestCsv[1] /\ Len(IngestedLines[2]) < 6 =>
        \A i \in 1..Len(df.rows) : df.rows[i][6] = Date(2024, 1, 15)

====
